---- MODULE Spec2Model ----
(***************************************************************************)
(* FaceSense front end (src/src/App.jsx): the AttendCapture component      *)
(* and the AuthProvider.                                                   *)
(*                                                                         *)
(* One mounted instance of AttendCapture, its React state (sessionId,      *)
(* status, result, streaming), its video ref, the camera streams handed    *)
(* out by getUserMedia, the HTTP requests in flight and the position of    *)
(* every asynchronous call of startSession / streamFrames /                *)
(* completeSession / manualPresent.  JavaScript runs one task at a time:   *)
(* every action below is one task (an event handler, or the continuation   *)
(* of an await together with the microtasks it queues).                    *)
(***************************************************************************)
EXTENDS Integers, FiniteSets, Sequences, TLC

\* ---------------------------------------------------------------- bounds
\* number of clicks on "Start Camera & Capture" that get through
MaxAttempts == 2
\* number of clicks on "Present (Manual)"
MaxManual == 1
\* number of submissions of the login form
MaxLogins == 3

\* ------------------------------------------------------- program constants
\* streamFrames: const frames = 20
frames == 20

Attempts == 1..MaxAttempts
Manuals == 1..MaxManual
Logins == 1..MaxLogins

\* useState(null) / an api start response without a sessionId field
Null == <<"null">>
Undefined == <<"undefined">>
\* the identifier the backend returns for the start request of attempt a
SidOf(a) == <<"sid", a>>

\* the outcome objects POST /api/attendance/complete may return
Outcomes == {"Alice/happy", "Bob/manual"}

StatusIdle == "Idle"
StatusStarting == "Starting session..."
StatusStreaming == "Streaming frames..."
StatusDenied == "Camera permission denied or unavailable"
StatusCompleted == "Completed"
StatusNoFace == "No face detected. You can use Manual Present."
StatusManualRecording == "Recording manual presence..."
StatusManualRecorded == "Manual recorded"
StatusManualFailed == "Manual record failed"

VARIABLES
    mounted,     \* the component instance is mounted (videoRef.current is set)
    streaming,   \* useState(false)
    sessionId,   \* useState(null)
    status,      \* useState("Idle")
    result,      \* useState(null)
    srcObject,   \* videoRef.current.srcObject: 0, or the attempt whose stream it is
    media,       \* per attempt: the stream getUserMedia gave it: "none" | "live" | "stopped"
    pc,          \* per attempt: where its startSession / streamFrames call stands
    frame,       \* per attempt: streamFrames' loop variable i
    sid,         \* per attempt: the sid argument of streamFrames
    net,         \* HTTP requests in flight
    nStart,      \* per attempt: POST /api/attendance/start requests issued
    nPost,       \* per attempt: POST /api/attendance/frame requests issued
    nPostDone,   \* per attempt: frame posts resolved (either way)
    nComplete,   \* per attempt: POST /api/attendance/complete requests issued
    nCleanup,    \* per attempt: runs of completeSession's finally block
    gumOutcome,  \* per attempt: "none" | "pending" | "granted" | "denied"
    startOutcome,\* per attempt: "none" | "pending" | the start response (StartResponses)
    mpc,         \* per manualPresent call: "idle" | "pending" | "done"
    nManualReq,  \* per manualPresent call: completion requests issued
    mresp,       \* per manualPresent call: "none" | "failed" | the outcome returned
    cresp,       \* per attempt: "none" | "failed" | the outcome completeSession got
    user,        \* AuthProvider useState(null)
    token,       \* AuthProvider useState(null)
    loading,     \* AuthProvider useState(true)
    stored,      \* localStorage "fs_token"
    mePc,        \* the mount effect: "init" | "none" | "pending" | "ok" | "failed"
    busy,        \* LoginPage useState(false)
    lpc          \* per login call: "idle" | "pending" | "ok" | "failed"

vars == <<mounted, streaming, sessionId, status, result, srcObject, media, pc,
          frame, sid, net, nStart, nPost, nPostDone, nComplete, nCleanup,
          gumOutcome, startOutcome, mpc, nManualReq, mresp, cresp,
          user, token, loading, stored, mePc, busy, lpc>>

manualVars == <<mpc, nManualReq, mresp>>
authVars == <<user, token, loading, stored, mePc, busy, lpc>>
captureVars == <<mounted, streaming, sessionId, status, result, srcObject, media,
                 pc, frame, sid, net, nStart, nPost, nPostDone, nComplete,
                 nCleanup, gumOutcome, startOutcome, mpc, nManualReq, mresp,
                 cresp>>

\* A state setter of an unmounted component does nothing.
SetState(old, new) == IF mounted THEN new ELSE old

\* ----------------------------------------------------------- api requests
Request(ep, a, m, s, f, img, man) ==
    [ep |-> ep, att |-> a, man |-> m, sid |-> s, frame |-> f, img |-> img,
     manual |-> man]

StartRequest(a) == Request("start", a, 0, Null, 0, "none", FALSE)
FrameRequest(a, s, f, img) == Request("frame", a, 0, s, f, img, FALSE)
CompleteRequest(a, s) == Request("complete", a, 0, s, 0, "none", FALSE)

\* ------------------------------------------------------------ stopStream
\* const stream = videoRef.current?.srcObject;
\* if (stream) stream.getTracks().forEach(t => t.stop());
stopStream(ref, src, med) ==
    IF ref /\ src # 0 THEN [med EXCEPT ![src] = "stopped"] ELSE med

\* ---------------------------------------------------------- captureFrame
\* if (!video || !canvas) return null; ... return canvas.toDataURL(...)
captureFrame == IF mounted THEN "jpeg" ELSE "null"

\* the token a reload finds in localStorage, the token login call k gets
StoredToken == <<"tok", 0>>
LoginToken(k) == <<"tok", k>>
\* the identity the backend gives for token t
UserOf(t) == <<"user", t[2]>>

\* AttendCapture after its first render
CaptureInit ==
    /\ mounted = TRUE
    /\ streaming = FALSE
    /\ sessionId = Null
    /\ status = StatusIdle
    /\ result = "null"
    /\ srcObject = 0
    /\ media = [a \in Attempts |-> "none"]
    /\ pc = [a \in Attempts |-> "idle"]
    /\ frame = [a \in Attempts |-> 0]
    /\ sid = [a \in Attempts |-> Null]
    /\ net = {}
    /\ nStart = [a \in Attempts |-> 0]
    /\ nPost = [a \in Attempts |-> 0]
    /\ nPostDone = [a \in Attempts |-> 0]
    /\ nComplete = [a \in Attempts |-> 0]
    /\ nCleanup = [a \in Attempts |-> 0]
    /\ gumOutcome = [a \in Attempts |-> "none"]
    /\ startOutcome = [a \in Attempts |-> "none"]
    /\ mpc = [m \in Manuals |-> "idle"]
    /\ nManualReq = [m \in Manuals |-> 0]
    /\ mresp = [m \in Manuals |-> "none"]
    /\ cresp = [a \in Attempts |-> "none"]

\* AuthProvider once the stored token has been confirmed by /api/me (the
\* state in which Protected renders the attendance page)
AuthSignedIn ==
    /\ user = UserOf(StoredToken)
    /\ token = StoredToken
    /\ stored = StoredToken
    /\ loading = FALSE
    /\ mePc = "ok"
    /\ busy = FALSE
    /\ lpc = [k \in Logins |-> "idle"]

Init == CaptureInit /\ AuthSignedIn

\* ------------------------------------------------- the start button
\* <button onClick={startSession} disabled={streaming}>
startDisabled == streaming

\* -------------------------------------------------------- streamFrames
\* the loop bound off by one: i <= frames
loopContinuesInclusive(i) == i <= frames

\* for (let i = 0; i < frames; i++)
loopContinues(i) == i < frames

\* the frame post not awaited: the loop goes straight to its timer
afterFrameIssuedNoAwait == "timer"

\* await api("/api/attendance/frame", ...): the loop waits for the response
afterFrameIssued == "post"

\* the frame post without its try/catch: a failed post rejects streamFrames
afterFramePostUncaught(ok) == IF ok THEN "timer" ELSE "aborted"

\* try { await api(...frame...) } catch (e) { /* ignore */ }
\* await new Promise(r => setTimeout(r, 100));
afterFramePost(ok) == "timer"

\* ------------------------------------------------------- startSession
\* the start request outside the try block, its failure not stopping the call
startProceedsUnguarded(resp) == TRUE

\* const { sessionId } = await api("/api/attendance/start", ...) inside try:
\* a rejected request, or a JSON null body (destructuring throws), goes to catch
startProceeds(resp) == resp \in {"sid", "noSid"}

\* an empty catch block: the status is left as it was
catchStatusSilent == status

\* catch (e) { setStatus("Camera permission denied or unavailable"); }
catchStatus == StatusDenied

\* ------------------------------------------------------ manualPresent
\* the manual body also carrying the component's session handle
manualRequestWithSession(m) == Request("complete", 0, m, sessionId, 0, "none", TRUE)

\* api("/api/attendance/complete", {method: "POST", token, body: {manual: true}})
manualRequest(m) == Request("complete", 0, m, Undefined, 0, "none", TRUE)

\* One turn of streamFrames' loop head with loop variable f, on top of the
\* requests net0: either capture a frame and post it, or leave the loop and
\* call completeSession(sid), which issues the completion request.
LoopStep(a, s, f, net0) ==
    IF loopContinues(f)
    THEN /\ net' = net0 \cup {FrameRequest(a, s, f, captureFrame)}
         /\ nPost' = [nPost EXCEPT ![a] = @ + 1]
         /\ pc' = [pc EXCEPT ![a] = afterFrameIssued]
         /\ UNCHANGED nComplete
    ELSE /\ net' = net0 \cup {CompleteRequest(a, s)}
         /\ nComplete' = [nComplete EXCEPT ![a] = @ + 1]
         /\ pc' = [pc EXCEPT ![a] = "complete"]
         /\ UNCHANGED nPost

\* Click on the start button: startSession runs to its first await.
ClickStart(a) ==
    /\ mounted
    /\ ~startDisabled
    /\ pc[a] = "idle"
    /\ \A b \in Attempts : b < a => pc[b] # "idle"
    /\ result' = "null"
    /\ status' = StatusStarting
    /\ pc' = [pc EXCEPT ![a] = "gum"]
    /\ gumOutcome' = [gumOutcome EXCEPT ![a] = "pending"]
    /\ UNCHANGED <<mounted, streaming, sessionId, srcObject, media, frame, sid,
                   net, nStart, nPost, nPostDone, nComplete, nCleanup,
                   startOutcome, manualVars, cresp, authVars>>

\* navigator.mediaDevices.getUserMedia settles.
GumResolve(a, ok) ==
    /\ pc[a] = "gum"
    /\ IF ~ok
       THEN /\ status' = SetState(status, catchStatus)
            /\ pc' = [pc EXCEPT ![a] = "failed"]
            /\ gumOutcome' = [gumOutcome EXCEPT ![a] = "denied"]
            /\ UNCHANGED <<media, srcObject, net, nStart, startOutcome>>
       ELSE /\ media' = [media EXCEPT ![a] = "live"]
            /\ gumOutcome' = [gumOutcome EXCEPT ![a] = "granted"]
            /\ IF mounted
               THEN \* videoRef.current.srcObject = media; await video.play()
                    /\ srcObject' = a
                    /\ pc' = [pc EXCEPT ![a] = "play"]
                    /\ UNCHANGED <<net, nStart, startOutcome>>
               ELSE \* videoRef.current is null: straight to the start request
                    /\ net' = net \cup {StartRequest(a)}
                    /\ nStart' = [nStart EXCEPT ![a] = @ + 1]
                    /\ startOutcome' = [startOutcome EXCEPT ![a] = "pending"]
                    /\ pc' = [pc EXCEPT ![a] = "start"]
                    /\ UNCHANGED srcObject
            /\ UNCHANGED status
    /\ UNCHANGED <<mounted, streaming, sessionId, result, frame, sid, nPost,
                   nPostDone, nComplete, nCleanup, manualVars, cresp, authVars>>

\* videoRef.current.play() settles.
PlayResolve(a, ok) ==
    /\ pc[a] = "play"
    /\ IF ok
       THEN /\ streaming' = SetState(streaming, TRUE)
            /\ net' = net \cup {StartRequest(a)}
            /\ nStart' = [nStart EXCEPT ![a] = @ + 1]
            /\ startOutcome' = [startOutcome EXCEPT ![a] = "pending"]
            /\ pc' = [pc EXCEPT ![a] = "start"]
            /\ UNCHANGED status
       ELSE /\ status' = SetState(status, catchStatus)
            /\ pc' = [pc EXCEPT ![a] = "failed"]
            /\ UNCHANGED <<streaming, net, nStart, startOutcome>>
    /\ UNCHANGED <<mounted, sessionId, result, srcObject, media, frame, sid,
                   nPost, nPostDone, nComplete, nCleanup, gumOutcome, manualVars, cresp, authVars>>

\* POST /api/attendance/start settles: resp is "fail" (fetch rejects or the
\* status is not 2xx), "nullJson" (2xx, JSON null), "noSid" (2xx, a body
\* without a sessionId field) or "sid" (2xx, {sessionId}).
StartResolve(a, resp) ==
    /\ pc[a] = "start"
    /\ StartRequest(a) \in net
    /\ startOutcome' = [startOutcome EXCEPT ![a] = resp]
    /\ IF startProceeds(resp)
       THEN LET s == IF resp = "sid" THEN SidOf(a) ELSE Undefined IN
            /\ sessionId' = SetState(sessionId, s)
            /\ status' = SetState(status, StatusStreaming)
            /\ sid' = [sid EXCEPT ![a] = s]
            /\ LoopStep(a, s, 0, net \ {StartRequest(a)})
       ELSE /\ status' = SetState(status, catchStatus)
            /\ pc' = [pc EXCEPT ![a] = "failed"]
            /\ net' = net \ {StartRequest(a)}
            /\ UNCHANGED <<sessionId, sid, nPost, nComplete>>
    /\ UNCHANGED <<mounted, streaming, result, srcObject, media, frame, nStart,
                   nPostDone, nCleanup, gumOutcome, manualVars, cresp, authVars>>

\* POST /api/attendance/frame settles, either way.
PostResolve(a, ok) ==
    /\ pc[a] = "post"
    /\ \E req \in net :
         /\ req.ep = "frame" /\ req.att = a /\ req.frame = frame[a]
         /\ net' = net \ {req}
    /\ nPostDone' = [nPostDone EXCEPT ![a] = @ + 1]
    /\ pc' = [pc EXCEPT ![a] = afterFramePost(ok)]
    /\ UNCHANGED <<mounted, streaming, sessionId, status, result, srcObject,
                   media, frame, sid, nStart, nPost, nComplete, nCleanup,
                   gumOutcome, startOutcome, manualVars, cresp, authVars>>

\* The 100 ms timer fires: i++, then the loop head.
TimerFire(a) ==
    /\ pc[a] = "timer"
    /\ frame' = [frame EXCEPT ![a] = @ + 1]
    /\ LoopStep(a, sid[a], frame[a] + 1, net)
    /\ UNCHANGED <<mounted, streaming, sessionId, status, result, srcObject,
                   media, sid, nStart, nPostDone, nCleanup, gumOutcome,
                   startOutcome, manualVars, cresp, authVars>>

\* setStatus("Completed") moved after the try statement: set on every path
completeStatusAlways(ok) == StatusCompleted

\* try { ...; setStatus("Completed") } catch (e) { setStatus("No face ...") }
completeStatus(ok) == IF ok THEN StatusCompleted ELSE StatusNoFace

\* try { const data = await api(...complete...); setResult(data); ... }
completeResult(ok, data, old) == IF ok THEN data ELSE old

\* POST /api/attendance/complete of completeSession settles.
CompleteResolve(a, ok, data) ==
    /\ pc[a] = "complete"
    /\ CompleteRequest(a, sid[a]) \in net
    /\ net' = net \ {CompleteRequest(a, sid[a])}
    /\ cresp' = [cresp EXCEPT ![a] = IF ok THEN data ELSE "failed"]
    /\ result' = SetState(result, completeResult(ok, data, result))
    /\ status' = SetState(status, completeStatus(ok))
    \* finally { stopStream(); setSessionId(null); }
    /\ media' = stopStream(mounted, srcObject, media)
    /\ streaming' = SetState(streaming, FALSE)
    /\ sessionId' = SetState(sessionId, Null)
    /\ nCleanup' = [nCleanup EXCEPT ![a] = @ + 1]
    /\ pc' = [pc EXCEPT ![a] = "done"]
    /\ UNCHANGED <<mounted, srcObject, frame, sid, nStart, nPost, nPostDone,
                   nComplete, gumOutcome, startOutcome, manualVars, authVars>>

\* The component unmounts: useEffect(() => () => stopStream(), []).  React
\* detaches videoRef when the video element is removed; whether the effect's
\* cleanup runs before or after that depends on the React release (18 runs
\* passive cleanups afterwards), so both are outcomes: refAtCleanup.
Unmount(refAtCleanup) ==
    /\ mounted
    /\ media' = stopStream(refAtCleanup, srcObject, media)
    /\ mounted' = FALSE
    /\ srcObject' = 0
    /\ UNCHANGED <<streaming, sessionId, status, result, pc, frame, sid, net,
                   nStart, nPost, nPostDone, nComplete, nCleanup, gumOutcome,
                   startOutcome, manualVars, cresp, authVars>>

\* Click on "Present (Manual)": manualPresent runs to its await.
ManualClick(m) ==
    /\ mounted
    /\ mpc[m] = "idle"
    /\ \A k \in Manuals : k < m => mpc[k] # "idle"
    /\ status' = StatusManualRecording
    /\ net' = net \cup {manualRequest(m)}
    /\ nManualReq' = [nManualReq EXCEPT ![m] = @ + 1]
    /\ mpc' = [mpc EXCEPT ![m] = "pending"]
    /\ UNCHANGED <<mounted, streaming, sessionId, result, srcObject, media, pc,
                   frame, sid, nStart, nPost, nPostDone, nComplete, nCleanup,
                   gumOutcome, startOutcome, mresp, cresp, authVars>>

\* POST /api/attendance/complete of manualPresent settles.
ManualResolve(m, ok, data) ==
    /\ mpc[m] = "pending"
    /\ \E req \in net :
         /\ req.man = m
         /\ net' = net \ {req}
    /\ result' = IF ok THEN SetState(result, data) ELSE result
    /\ status' = SetState(status, IF ok THEN StatusManualRecorded
                                        ELSE StatusManualFailed)
    /\ mpc' = [mpc EXCEPT ![m] = "done"]
    /\ mresp' = [mresp EXCEPT ![m] = IF ok THEN data ELSE "failed"]
    /\ UNCHANGED <<mounted, streaming, sessionId, srcObject, media, pc, frame,
                   sid, nStart, nPost, nPostDone, nComplete, nCleanup,
                   gumOutcome, startOutcome, nManualReq, cresp, authVars>>

\* ---------------------------------------------------------- AuthProvider
\* AuthProvider and LoginPage after their first render, before the mount
\* effect: localStorage holds a token from an earlier visit, or none.
AuthInit ==
    /\ user = Null
    /\ token = Null
    /\ loading = TRUE
    /\ stored \in {Null, StoredToken}
    /\ mePc = "init"
    /\ busy = FALSE
    /\ lpc = [k \in Logins |-> "idle"]

\* useEffect(() => { const t = localStorage.getItem("fs_token"); ... }, [])
MountEffect ==
    /\ mePc = "init"
    /\ IF stored # Null
       THEN /\ token' = stored
            /\ mePc' = "pending"
            /\ UNCHANGED loading
       ELSE /\ loading' = FALSE
            /\ mePc' = "none"
            /\ UNCHANGED token
    /\ UNCHANGED <<user, stored, busy, lpc, captureVars>>

\* api("/api/me", {token: t}) settles:
\* .then(setUser).catch(() => { removeItem; setToken(null) }).finally(...)
MeResolve(ok) ==
    /\ mePc = "pending"
    /\ IF ok
       THEN /\ user' = UserOf(StoredToken)
            /\ mePc' = "ok"
            /\ UNCHANGED <<token, stored>>
       ELSE /\ stored' = Null
            /\ token' = Null
            /\ mePc' = "failed"
            /\ UNCHANGED user
    /\ loading' = FALSE
    /\ UNCHANGED <<busy, lpc, captureVars>>

\* LoginPage.onSubmit up to the await inside login (the route /login is not
\* behind Protected; the button is disabled={busy})
LoginSubmit(k) ==
    /\ mePc # "init"
    /\ ~busy
    /\ lpc[k] = "idle"
    /\ \A j \in Logins : j < k => lpc[j] # "idle"
    /\ busy' = TRUE
    /\ lpc' = [lpc EXCEPT ![k] = "pending"]
    /\ UNCHANGED <<user, token, loading, stored, mePc, captureVars>>

\* POST /api/auth/login settles: setUser(data.user); setToken(data.token);
\* localStorage.setItem("fs_token", data.token); then onSubmit's finally
LoginResolve(k, ok) ==
    /\ lpc[k] = "pending"
    /\ IF ok
       THEN /\ user' = UserOf(LoginToken(k))
            /\ token' = LoginToken(k)
            /\ stored' = LoginToken(k)
       ELSE UNCHANGED <<user, token, stored>>
    /\ busy' = FALSE
    /\ lpc' = [lpc EXCEPT ![k] = IF ok THEN "ok" ELSE "failed"]
    /\ UNCHANGED <<loading, mePc, captureVars>>

\* The Logout button of AppShell, which the pages behind Protected render
\* (Protected: not loading, user set).
Logout ==
    /\ ~loading
    /\ user # Null
    /\ user' = Null
    /\ token' = Null
    /\ stored' = Null
    /\ UNCHANGED <<loading, mePc, busy, lpc, captureVars>>

AuthNext ==
    \/ MountEffect
    \/ \E ok \in BOOLEAN : MeResolve(ok)
    \/ \E k \in Logins : LoginSubmit(k)
    \/ \E k \in Logins, ok \in BOOLEAN : LoginResolve(k, ok)
    \/ Logout

\* A page load
PageLoad == CaptureInit /\ AuthInit

\* The AuthProvider from a page load on, AttendCapture left as rendered.
AuthSpec == PageLoad /\ [][AuthNext]_vars

StartResponses == {"fail", "nullJson", "noSid", "sid"}

\* startSession, streamFrames, completeSession and the unmount effect
CaptureNext ==
    \/ \E a \in Attempts : ClickStart(a)
    \/ \E a \in Attempts, ok \in BOOLEAN : GumResolve(a, ok)
    \/ \E a \in Attempts, ok \in BOOLEAN : PlayResolve(a, ok)
    \/ \E a \in Attempts, resp \in StartResponses : StartResolve(a, resp)
    \/ \E a \in Attempts, ok \in BOOLEAN : PostResolve(a, ok)
    \/ \E a \in Attempts : TimerFire(a)
    \/ \E a \in Attempts, data \in Outcomes : CompleteResolve(a, TRUE, data)
    \/ \E a \in Attempts : CompleteResolve(a, FALSE, "null")
    \/ \E r \in BOOLEAN : Unmount(r)

\* manualPresent
ManualNext ==
    \/ \E m \in Manuals : ManualClick(m)
    \/ \E m \in Manuals, data \in Outcomes : ManualResolve(m, TRUE, data)
    \/ \E m \in Manuals : ManualResolve(m, FALSE, "null")

Next == CaptureNext \/ ManualNext

Spec == Init /\ [][Next]_vars

\* Every HTTP request settles and every timer fires.
Fairness ==
    /\ \A a \in Attempts : WF_vars(\E resp \in StartResponses : StartResolve(a, resp))
    /\ \A a \in Attempts : WF_vars(\E ok \in BOOLEAN : PostResolve(a, ok))
    /\ \A a \in Attempts : WF_vars(TimerFire(a))
    /\ \A a \in Attempts : WF_vars(\E data \in Outcomes : CompleteResolve(a, TRUE, data))

\* The capture side alone (manualPresent reads and writes nothing that
\* startSession, streamFrames or completeSession read), with that fairness.
FairSpec == Init /\ [][CaptureNext]_vars /\ Fairness

\* ------------------------------------------------------------ vocabulary
\* streamFrames(sid) was called for attempt a
LoopStarted(a) == startOutcome[a] \in {"sid", "noSid"}
\* the requests of attempt a in flight at endpoint ep
InFlight(a, ep) == {req \in net : req.att = a /\ req.ep = ep}

\* attempt a is between its click and its end (settled, failed or finalized)
Active(a) == pc[a] \notin {"idle", "done", "failed"}
\* the backend session of attempt a is started and not yet finalized
SessionOpen(a) == LoopStarted(a) /\ pc[a] # "done"
Live == {a \in Attempts : media[a] = "live"}

\* C1: at any time at most one camera stream is live and at most one
\* capture session is started and not yet finalized (what a start click
\* having no effect while an attempt is active would guarantee).
C1_OneStreamOneSession ==
    /\ Cardinality(Live) <= 1
    /\ Cardinality({a \in Attempts : SessionOpen(a)}) <= 1

\* C2: once a frame loop has ended, the tracks of the camera stream of its
\* attempt are stopped and the cleanup (stopStream, setSessionId(null)) has
\* run exactly once for it.
C2_CleanupAtLoopEnd ==
    \A a \in Attempts :
        pc[a] = "done" => media[a] = "stopped" /\ nCleanup[a] = 1

\* C3: an attempt whose camera acquisition and start request succeeded runs
\* its frame loop without leaving it early, never issues more than 20 frame
\* posts, and has issued exactly 20 when the loop is over.
C3_ExactlyTwentyFramePosts ==
    \A a \in Attempts :
        /\ nPost[a] <= 20
        /\ LoopStarted(a) =>
             /\ gumOutcome[a] = "granted"
             /\ pc[a] \in {"post", "timer", "complete", "done"}
             /\ pc[a] \in {"post", "timer"} => nPost[a] = frame[a] + 1
             /\ pc[a] \in {"complete", "done"} => nPost[a] = 20
        /\ ~LoopStarted(a) => nPost[a] = 0

C3_Witness ==
    \E a \in Attempts : pc[a] = "done" /\ nPost[a] = 20 /\ nPostDone[a] = 20

\* C4: under FairSpec every started frame loop eventually issues its
\* completion request, never more than one, carrying the loop's session id,
\* and only once all 20 frame posts of the loop have resolved.
C4_CompletionAfterAllFrames ==
    /\ [](\A a \in Attempts :
            /\ nComplete[a] <= 1
            /\ nComplete[a] = 1 =>
                 /\ LoopStarted(a)
                 /\ nPost[a] = 20
                 /\ nPostDone[a] = 20
                 /\ InFlight(a, "frame") = {}
            /\ \A req \in InFlight(a, "complete") :
                 req.sid = sid[a] /\ ~req.manual)
    /\ \A a \in Attempts : LoopStarted(a) ~> (nComplete[a] = 1)


C4_Witness ==
    \E a \in Attempts :
        pc[a] = "complete" /\ nComplete[a] = 1 /\ InFlight(a, "complete") # {}

\* C5: whenever the mounted component has had at least one capture attempt
\* and none is still under way, streaming is false (the start action is
\* enabled again).
C5_IdleAfterAnyOutcome ==
    (/\ mounted
     /\ \E a \in Attempts : pc[a] # "idle"
     /\ \A a \in Attempts : ~Active(a))
    => ~streaming

\* C6: whenever no startSession call is pending and no frame loop is in
\* flight, or the component has been unmounted, no camera track acquired by
\* getUserMedia is still live.
C6_StreamsReleased ==
    ((\A a \in Attempts : ~Active(a)) \/ ~mounted) => Live = {}

\* C7: an attempt whose start request failed has issued that one start
\* request only (no retry), no frame post and no completion request, and
\* has ended.
C7_StartFailureAborts ==
    \A a \in Attempts :
        startOutcome[a] = "fail" =>
            /\ nStart[a] = 1
            /\ nPost[a] = 0
            /\ nComplete[a] = 0
            /\ pc[a] = "failed"
            /\ {req \in net : req.att = a} = {}

C7_Witness ==
    \E a \in Attempts : startOutcome[a] = "fail" /\ media[a] = "live"

\* C8: an attempt whose getUserMedia call was rejected never issues a start
\* request, a frame post or a completion request, and the step that rejects
\* it sets the status of the mounted component to "Camera permission denied
\* or unavailable".
C8_CameraDenied ==
    /\ [](\A a \in Attempts :
            gumOutcome[a] = "denied" =>
                /\ nStart[a] = 0
                /\ nPost[a] = 0
                /\ nComplete[a] = 0
                /\ pc[a] = "failed"
                /\ {req \in net : req.att = a} = {})
    /\ [][\A a \in Attempts :
            (gumOutcome[a] = "pending" /\ gumOutcome'[a] = "denied" /\ mounted)
            => status' = "Camera permission denied or unavailable"]_vars

C8_Witness ==
    \E a \in Attempts :
        /\ gumOutcome[a] = "denied"
        /\ mounted
        /\ status = "Camera permission denied or unavailable"

\* some manualPresent call takes a step (its click, or its request settling)
ManualStep == mpc' # mpc

\* C9: every manualPresent call issues exactly one request, a completion
\* request whose body carries the manual flag and no session id; a step of
\* manualPresent leaves the video's stream, every camera track, the
\* streaming flag and the session handle unchanged and adds no start or
\* frame request; when the request succeeds, the mounted component's result
\* becomes the returned outcome.
C9_ManualPresent ==
    /\ [](\A m \in Manuals :
            /\ nManualReq[m] = (IF mpc[m] = "idle" THEN 0 ELSE 1)
            /\ \A req \in net :
                 req.man = m =>
                    /\ req.ep = "complete"
                    /\ req.manual
                    /\ req.sid = Undefined
                    /\ req.att = 0)
    /\ [][ManualStep =>
            /\ UNCHANGED <<srcObject, media, streaming, sessionId, nStart,
                           nPost, nComplete, gumOutcome, pc>>
            /\ \A req \in net' \ net : req.ep = "complete"]_vars
    /\ [][\A m \in Manuals :
            (mpc[m] = "pending" /\ mpc'[m] = "done" /\ mounted
                /\ mresp'[m] \in Outcomes)
            => result' = mresp'[m] /\ status' = "Manual recorded"]_vars

C9_Witness ==
    \E m \in Manuals :
        /\ mpc[m] = "done"
        /\ mresp[m] = "Bob/manual"
        /\ result = "Bob/manual"
        /\ Live # {}
        /\ streaming

\* C10: the frame posts of an attempt go out one at a time and in capture
\* order: at most one is in flight, it is the post of the current loop
\* index, every earlier post has resolved; and two frame posts in flight at
\* once never carry the same session id.
C10_SequentialFramePosts ==
    /\ \A a \in Attempts :
        /\ Cardinality(InFlight(a, "frame")) <= 1
        /\ nPostDone[a] <= nPost[a]
        /\ nPost[a] <= nPostDone[a] + 1
        /\ \A req \in InFlight(a, "frame") :
             /\ req.frame = frame[a]
             /\ req.frame = nPostDone[a]
             /\ nPost[a] = nPostDone[a] + 1
    /\ \A r1, r2 \in {req \in net : req.ep = "frame" /\ req.sid # Undefined} :
         r1.sid = r2.sid => r1 = r2

C10_Witness ==
    \E a \in Attempts :
        \E req \in InFlight(a, "frame") : req.frame = 3 /\ nPostDone[a] = 3

\* the frame loop of attempt a is running (streamFrames called, completion
\* request not yet settled)
LoopInFlight(a) == LoopStarted(a) /\ pc[a] \in {"post", "timer", "complete"}

\* C11: a step that unmounts the component leaves no camera stream of an
\* attempt whose frame loop is in flight live, and leaves that loop where it
\* was (it goes on to its remaining frame posts and its completion request).
C11_UnmountStopsStreamKeepsLoop ==
    [][(mounted /\ ~mounted') =>
          \A a \in Attempts :
              LoopInFlight(a) =>
                  /\ media'[a] # "live"
                  /\ pc'[a] = pc[a]
                  /\ frame'[a] = frame[a]
                  /\ InFlight(a, "frame")' = InFlight(a, "frame")
                  /\ InFlight(a, "complete")' = InFlight(a, "complete")]_vars

\* C12: the step in which the completion request of a frame loop settles
\* ends the loop without another completion request; on the mounted
\* component a success sets result to the returned outcome and status to
\* "Completed", a failure sets status to "No face detected. You can use
\* Manual Present." and leaves result as it was.
C12_CompletionDecidesStatus ==
    /\ [](\A a \in Attempts :
            pc[a] = "done" =>
                /\ nComplete[a] = 1
                /\ InFlight(a, "complete") = {}
                /\ cresp[a] # "none")
    /\ [][\A a \in Attempts :
            (pc[a] = "complete" /\ pc'[a] = "done" /\ mounted) =>
                IF cresp'[a] \in Outcomes
                THEN /\ result' = cresp'[a]
                     /\ status' = "Completed"
                ELSE /\ cresp'[a] = "failed"
                     /\ result' = result
                     /\ status' = "No face detected. You can use Manual Present."]_vars

C12_Witness ==
    \E a \in Attempts :
        /\ pc[a] = "done"
        /\ cresp[a] = "failed"
        /\ mounted
        /\ status = "No face detected. You can use Manual Present."
        /\ result = "Bob/manual"

\* C13: every frame post and every completion request of a frame loop in
\* flight carries the session identifier of its attempt's start response,
\* never an undefined one.
C13_RequestsCarrySessionId ==
    \A req \in net :
        (req.att \in Attempts /\ req.ep \in {"frame", "complete"})
        => req.sid = SidOf(req.att)

\* C14: whenever user is set, the in-memory token is set, equals the value
\* stored under fs_token, and is the token user was authenticated with.
C14_UserImpliesToken ==
    user # Null =>
        /\ token # Null
        /\ token = stored
        /\ user = UserOf(token)

====
